---- MODULE Spec2Model ----
(***************************************************************************)
(* content-lite: the collection assembly pipeline.                         *)
(*                                                                         *)
(*   defineCollection  ->  loadJsonCollection | loadMarkdownCollection     *)
(*                     ->  validateItems (when a schema is configured)     *)
(*                     ->  transform     (when a transform is configured)  *)
(*                     ->  { all(), getById(id) }                          *)
(*                                                                         *)
(* Strings whose structure the code inspects (paths, contentPath values,   *)
(* file text) are sequences of tokens: "/" is the path separator, "." the  *)
(* extension dot, " " a whitespace character, "---" a frontmatter fence    *)
(* and every other token is a run of ordinary characters.  An optional     *)
(* value (filePath?, itemIndex?) is a sequence of length 0 or 1.           *)
(***************************************************************************)
EXTENDS Integers, Sequences, FiniteSets, TLC

\* Longest JSON array and directory listing a defineCollection call is given.
MaxLen == 2

\* Longest array, item list and listing a directly called loader or validator is given.
MaxItems == 3

\* Most mutations a caller applies to an array a collection handed out.
MaxMut == 1

\* defineCollection calls made one after the other in one process.
MaxCalls == 2

\* Largest item index of a ContentError that is constructed directly.
MaxIndex == 3

----------------------------------------------------------------------------
(* JavaScript values held in record fields *)

Fields == {"id", "title", "contentPath", "body"}

Absent == [t |-> "absent", v |-> <<>>]

Str(s) == [t |-> "str", v |-> s]

Num(s) == [t |-> "num", v |-> s]

NoFields == [id |-> Absent, title |-> Absent, contentPath |-> Absent, body |-> Absent]

\* An array element: a plain object (k = "obj", its own keys in f), or null,
\* or a number or string primitive p.
Obj(f) == [k |-> "obj", p |-> <<>>, f |-> f]

Null == [k |-> "null", p |-> <<>>, f |-> NoFields]

Prim(kind, p) == [k |-> kind, p |-> p, f |-> NoFields]

\* JavaScript's undefined as the result of a lookup.
Undefined == [k |-> "undefined", p |-> <<>>, f |-> NoFields]

\* `'name' in item` on a value that passed `item && typeof item === 'object'`.
HasKey(item, name) == item.f[name].t # "absent"

\* Variant: `{ body: text, ...item }`, the item's own body survives.
WithBody_keepsOwn(item, text) ==
  IF item.f.body.t = "absent"
    THEN [item EXCEPT !.f = [item.f EXCEPT !.body = Str(text)]]
    ELSE item

\* `{ ...item, body: text }`
WithBody(item, text) == [item EXCEPT !.f = [item.f EXCEPT !.body = Str(text)]]

\* typeof of a parsed JSON top-level value.
TypeofJs(kind) ==
  CASE kind \in {"array", "object", "null"} -> "object"
    [] kind = "string" -> "string"
    [] kind = "number" -> "number"
    [] OTHER -> "boolean"

\* Template-literal rendering of an array index.
IndexStr(i) == <<"0", "1", "2", "3", "4", "5", "6", "7", "8", "9">>[i + 1]

----------------------------------------------------------------------------
(* String.prototype.trim and toLowerCase *)

RECURSIVE TrimStart(_)
TrimStart(s) == IF s # <<>> /\ Head(s) = " " THEN TrimStart(Tail(s)) ELSE s

RECURSIVE TrimEnd(_)
TrimEnd(s) ==
  IF s # <<>> /\ s[Len(s)] = " " THEN TrimEnd(SubSeq(s, 1, Len(s) - 1)) ELSE s

Trim(s) == TrimEnd(TrimStart(s))

LowerTok(t) ==
  CASE t \in {"JSON", "Json", "json"} -> "json"
    [] t \in {"MD", "md"} -> "md"
    [] t \in {"MDX", "Mdx", "mdx"} -> "mdx"
    [] OTHER -> t

ToLowerCase(s) == [n \in 1..Len(s) |-> LowerTok(s[n])]

----------------------------------------------------------------------------
(* node:path (POSIX): extname, resolve, dirname, join *)

\* One iteration of extname's right-to-left scan; st carries its locals.
ExtScan(path, i, st) ==
  IF st.stop THEN st
  ELSE IF path[i] = "/"
    THEN IF ~st.matchedSlash
           THEN [st EXCEPT !.startPart = i + 1, !.stop = TRUE]
           ELSE st
    ELSE LET s1 == IF st.end = -1
                     THEN [st EXCEPT !.matchedSlash = FALSE, !.end = i + 1]
                     ELSE st
         IN IF path[i] = "."
              THEN IF s1.startDot = -1
                     THEN [s1 EXCEPT !.startDot = i]
                     ELSE IF s1.preDotState # 1
                            THEN [s1 EXCEPT !.preDotState = 1]
                            ELSE s1
              ELSE IF s1.startDot # -1
                     THEN [s1 EXCEPT !.preDotState = -1]
                     ELSE s1

RECURSIVE ExtLoop(_, _, _)
ExtLoop(path, i, st) ==
  IF i = 0 THEN st ELSE ExtLoop(path, i - 1, ExtScan(path, i, st))

\* Positions are 1-based here: end is one past the last basename token.
Extname(path) ==
  LET st == ExtLoop(path, Len(path),
                    [startDot |-> -1, startPart |-> 1, end |-> -1,
                     matchedSlash |-> TRUE, preDotState |-> 0, stop |-> FALSE])
  IN IF \/ st.startDot = -1
        \/ st.end = -1
        \/ st.preDotState = 0
        \/ (st.preDotState = 1 /\ st.startDot = st.end - 1
              /\ st.startDot = st.startPart + 1)
       THEN <<>>
       ELSE SubSeq(path, st.startDot, st.end - 1)

IsAbsolute(p) == p # <<>> /\ Head(p) = "/"

\* Collapse repeated separators and drop trailing ones (the root stays "/").
RECURSIVE Squeeze(_)
Squeeze(p) ==
  IF Len(p) < 2 THEN p
  ELSE IF p[1] = "/" /\ p[2] = "/" THEN Squeeze(Tail(p))
  ELSE <<Head(p)>> \o Squeeze(Tail(p))

NormalizePath(p) ==
  LET q == Squeeze(p)
  IN IF Len(q) > 1 /\ q[Len(q)] = "/" THEN SubSeq(q, 1, Len(q) - 1) ELSE q

\* path.resolve(base, p) for an absolute base.
Resolve(base, p) ==
  IF IsAbsolute(p) THEN NormalizePath(p)
  ELSE IF p = <<>> THEN NormalizePath(base)
  ELSE NormalizePath(base \o <<"/">> \o p)

RECURSIVE LastSlash(_, _)
LastSlash(p, i) == IF i = 0 \/ p[i] = "/" THEN i ELSE LastSlash(p, i - 1)

\* path.dirname of a normalized absolute path.
Dirname(p) ==
  LET n == LastSlash(p, Len(p))
  IN IF n <= 1 THEN <<"/">> ELSE SubSeq(p, 1, n - 1)

Join(dir, name) == NormalizePath(dir \o <<"/">> \o name)

----------------------------------------------------------------------------
(* The filesystem, read-only: absolute path -> node.  A file's content is  *)
(* its text (a token sequence) and what JSON.parse makes of that text.     *)

NoJson == [valid |-> FALSE, top |-> "null", arr |-> <<>>]

JsonArray(arr) == [valid |-> TRUE, top |-> "array", arr |-> arr]

JsonTop(kind) == [valid |-> TRUE, top |-> kind, arr |-> <<>>]

MissingNode ==
  [kind |-> "missing", perm |-> "ok", text |-> <<>>, json |-> NoJson, list |-> <<>>]

TextFile(text) ==
  [kind |-> "file", perm |-> "ok", text |-> text, json |-> NoJson, list |-> <<>>]

JsonFile(doc) ==
  [kind |-> "file", perm |-> "ok", text |-> <<"json text">>, json |-> doc, list |-> <<>>]

DeniedFile ==
  [kind |-> "file", perm |-> "denied", text |-> <<>>, json |-> NoJson, list |-> <<>>]

DirNode(list) ==
  [kind |-> "dir", perm |-> "ok", text |-> <<>>, json |-> NoJson, list |-> list]

\* What a system call reports: a value, or a Node.js system error.
Ok(val) == [ok |-> TRUE, val |-> val, code |-> "", msg |-> <<>>]

SysErr(code, p) == [ok |-> FALSE, val |-> MissingNode, code |-> code, msg |-> <<code, ": ">> \o p]

Lookup(fs, p) == IF p \in DOMAIN fs THEN fs[p] ELSE MissingNode

\* fs.statSync(p)
StatSync(fs, p) ==
  LET n == Lookup(fs, p)
  IN IF n.kind = "missing" THEN SysErr("ENOENT", p) ELSE Ok(n)

\* fs.readFileSync(p, 'utf-8'); val is the node whose text was read.
ReadFileSync(fs, p) ==
  LET n == Lookup(fs, p)
  IN CASE n.kind = "missing" -> SysErr("ENOENT", p)
       [] n.kind = "dir" -> SysErr("EISDIR", p)
       [] n.perm = "denied" -> SysErr("EACCES", p)
       [] OTHER -> Ok(n)

\* fs.readdirSync(p) on a path that stat-ed as a directory.
ReaddirSync(fs, p) ==
  LET n == Lookup(fs, p)
  IN CASE n.kind = "missing" -> SysErr("ENOENT", p)
       [] n.kind = "file" -> SysErr("ENOTDIR", p)
       [] n.perm = "denied" -> SysErr("EACCES", p)
       [] OTHER -> Ok(n)

----------------------------------------------------------------------------
(* ContentError and the errors that are not ContentErrors *)

ContentError(message, filePath, itemIndex) ==
  [name |-> "ContentError", message |-> message,
   filePath |-> filePath, itemIndex |-> itemIndex]

\* An exception of another class (TypeError, a user function's own error).
RawError(name, message) ==
  [name |-> name, message |-> message, filePath |-> <<>>, itemIndex |-> <<>>]

NoError == [name |-> "none", message |-> <<>>, filePath |-> <<>>, itemIndex |-> <<>>]

Thrown(err) == [ok |-> FALSE, val |-> <<>>, err |-> err]

\* Variant: Array.prototype.unshift.
Push_unshift(seq, x) == <<x>> \o seq

\* Array.prototype.push
Push(seq, x) == Append(seq, x)

Returned(val) == [ok |-> TRUE, val |-> val, err |-> NoError]

\* ContentError.prototype.toString; `if (this.filePath)` tests truthiness,
\* `this.itemIndex !== undefined` tests presence.
toString(e) ==
  e.message
    \o (IF e.filePath # <<>> /\ e.filePath[1] # <<>>
          THEN <<"\n  File: ">> \o e.filePath[1] ELSE <<>>)
    \o (IF e.itemIndex # <<>>
          THEN <<"\n  Item index: ", IndexStr(e.itemIndex[1])>> ELSE <<>>)

----------------------------------------------------------------------------
(* gray-matter: split a text into its frontmatter data and its content.    *)
(* A text with frontmatter is <<"---", k1, v1, ..., "---">> \o content;    *)
(* the token "!" inside the fences is YAML the parser rejects.             *)

RECURSIVE FenceAt(_, _)
FenceAt(text, i) ==
  IF i > Len(text) THEN 0 ELSE IF text[i] = "---" THEN i ELSE FenceAt(text, i + 1)

RECURSIVE YamlPairs(_, _)
YamlPairs(block, data) ==
  IF Len(block) < 2 THEN data
  ELSE YamlPairs(SubSeq(block, 3, Len(block)),
                 IF block[1] \in Fields
                   THEN [data EXCEPT ![block[1]] = Str(<<block[2]>>)]
                   ELSE data)

YamlValid(block) == Len(block) % 2 = 0 /\ \A n \in 1..Len(block) : block[n] # "!"

\* matter(text): val is <<data, content>>; throws the YAML parser's error.
Matter(text) ==
  IF text = <<>> \/ Head(text) # "---" THEN Returned(<<NoFields, text>>)
  ELSE LET close == FenceAt(text, 2)
           block == IF close = 0 THEN Tail(text) ELSE SubSeq(text, 2, close - 1)
           content == IF close = 0 THEN <<>> ELSE SubSeq(text, close + 1, Len(text))
       IN IF YamlValid(block)
            THEN Returned(<<YamlPairs(block, NoFields), content>>)
            ELSE Thrown(RawError("YAMLException", <<"bad indentation of a mapping entry">>))

----------------------------------------------------------------------------
(* zod: z.object({ name: z.string(), ... }), stripping or passing through  *)
(* undeclared keys.  decl lists the declared keys in declaration order.    *)

ZodObject(decl, unknownKeys) == [decl |-> decl, unknownKeys |-> unknownKeys]

RECURSIVE ZodIssues(_, _)
ZodIssues(decl, item) ==
  IF decl = <<>> THEN <<>>
  ELSE LET v == item.f[Head(decl)]
           here == CASE v.t = "absent" -> << <<Head(decl), ": ", "Required">> >>
                     [] v.t # "str" -> << <<Head(decl), ": ", "Expected string, received number">> >>
                     [] OTHER -> <<>>
       IN here \o ZodIssues(Tail(decl), item)

\* schema.safeParse(item): success with the normalized data, or the issues
\* already rendered as `${path}: ${message}`.
SafeParse(schema, item) ==
  IF item.k # "obj"
    THEN [success |-> FALSE, data |-> item,
          errors |-> << <<"", ": ", "Expected object, received ", item.k>> >>]
    ELSE LET issues == ZodIssues(schema.decl, item)
             declared == {schema.decl[n] : n \in 1..Len(schema.decl)}
             kept == [n \in Fields |-> IF n \in declared THEN item.f[n] ELSE Absent]
         IN IF issues # <<>>
              THEN [success |-> FALSE, data |-> item, errors |-> issues]
              ELSE [success |-> TRUE,
                    data |-> IF schema.unknownKeys = "strip" THEN Obj(kept) ELSE item,
                    errors |-> <<>>]

\* errors.join(', ')
RECURSIVE JoinErrors(_)
JoinErrors(errors) ==
  IF errors = <<>> THEN <<>>
  ELSE IF Len(errors) = 1 THEN Head(errors)
  ELSE Head(errors) \o <<", ">> \o JoinErrors(Tail(errors))

----------------------------------------------------------------------------
(* loaders/loadMarkdownFile.ts *)

\* Variant: one framing for every read error.
LoadMarkdownFile_oneFraming(fs, wd, filePath) ==
  LET resolvedPath == Resolve(wd, filePath)
      r == ReadFileSync(fs, resolvedPath)
  IN IF r.ok THEN Returned(r.val.text)
     ELSE Thrown(ContentError(<<"Failed to read markdown file: ">> \o r.msg,
                              <<resolvedPath>>, <<>>))

\* loadMarkdownFile(filePath): the file's raw text, or a ContentError.
\* path.resolve does not throw on a string, so the first catch is dead.
LoadMarkdownFile(fs, wd, filePath) ==
  LET resolvedPath == Resolve(wd, filePath)
      r == ReadFileSync(fs, resolvedPath)
  IN IF r.ok THEN Returned(r.val.text)
     ELSE IF r.code = "ENOENT"
       THEN Thrown(ContentError(<<"Markdown file not found: ">> \o filePath,
                                <<resolvedPath>>, <<>>))
       ELSE Thrown(ContentError(<<"Failed to read markdown file: ">> \o r.msg,
                                <<resolvedPath>>, <<>>))

----------------------------------------------------------------------------
(* loaders/loadJsonCollection.ts *)

\* loadJson(filePath): the parsed document, or a ContentError.
LoadJson(fs, wd, filePath) ==
  LET resolvedPath == Resolve(wd, filePath)
      r == ReadFileSync(fs, resolvedPath)
  IN IF ~r.ok
       THEN Thrown(ContentError(<<"Failed to read file: ">> \o r.msg,
                                <<resolvedPath>>, <<>>))
     ELSE IF ~r.val.json.valid
       THEN Thrown(ContentError(<<"Failed to parse JSON: ", "Unexpected token">>,
                                <<resolvedPath>>, <<>>))
     ELSE Returned(r.val.json)

\* loadJsonCollection up to its loop: the array to process.
JsonOpen(fs, wd, filePath) ==
  LET d == LoadJson(fs, wd, filePath)
  IN IF ~d.ok THEN d
     ELSE IF d.val.top # "array"
       THEN Thrown(ContentError(<<"Expected JSON file to contain an array, got ",
                                  TypeofJs(d.val.top)>>,
                                <<filePath>>, <<>>))
     ELSE Returned(d.val.arr)

\* Variant: the contentPath is compared with '' without trimming.
LinkActive_noTrim(item) ==
  /\ item.k = "obj"
  /\ HasKey(item, "contentPath")
  /\ item.f.contentPath.t = "str"
  /\ item.f.contentPath.v # <<>>

\* The two nested conditions that send an element to the Markdown reader.
LinkActive(item) ==
  /\ item.k = "obj"
  /\ HasKey(item, "contentPath")
  /\ item.f.contentPath.t = "str"
  /\ Trim(item.f.contentPath.v) # <<>>

\* Variant: the contentPath is resolved against the working directory.
LinkTarget_fromCwd(wd, filePath, item) == Resolve(wd, item.f.contentPath.v)

\* The file a linked element names.
LinkTarget(wd, filePath, item) ==
  Resolve(Dirname(Resolve(wd, filePath)), item.f.contentPath.v)

\* Variant: the reader's error leaves the loop as it is.
LinkError_rethrows(filePath, i, inner) == inner

\* The error the loop's catch block raises for element i.
LinkError(filePath, i, inner) ==
  IF inner.name = "ContentError"
    THEN ContentError(<<"Failed to load markdown content for item at index ",
                        IndexStr(i), ": ">> \o inner.message,
                      <<filePath>>, <<i>>)
    ELSE inner

\* Variant: an element whose link cannot be loaded is passed on unlinked.
LinkItem_skipsBadLink(fs, wd, filePath, item, i) ==
  IF LinkActive(item)
    THEN LET md == LoadMarkdownFile(fs, wd, LinkTarget(wd, filePath, item))
         IN IF md.ok THEN Returned(WithBody(item, md.val))
            ELSE Returned(item)
    ELSE Returned(item)

\* One iteration of loadJsonCollection's loop, for element i (0-based).
LinkItem(fs, wd, filePath, item, i) ==
  IF LinkActive(item)
    THEN LET md == LoadMarkdownFile(fs, wd, LinkTarget(wd, filePath, item))
         IN IF md.ok THEN Returned(WithBody(item, md.val))
            ELSE Thrown(LinkError(filePath, i, md.err))
    ELSE Returned(item)

----------------------------------------------------------------------------
(* loaders/loadMarkdownCollection.ts; the repository holds two copies,     *)
(* one recognizing .md only and one recognizing .md and .mdx.              *)

RecognizedExt(mdx, ext) == ext = <<".", "md">> \/ (mdx /\ ext = <<".", "mdx">>)

\* Variant: an entry whose stat throws is kept.
Qualifies_keepsUnstatable(fs, mdx, resolvedPath, file) ==
  LET st == StatSync(fs, Join(resolvedPath, file))
  IN /\ RecognizedExt(mdx, ToLowerCase(Extname(file)))
     /\ (~st.ok \/ st.val.kind = "file")

\* Variant: the entry's kind is not looked at.
Qualifies_anyKind(fs, mdx, resolvedPath, file) ==
  LET st == StatSync(fs, Join(resolvedPath, file))
  IN st.ok /\ RecognizedExt(mdx, ToLowerCase(Extname(file)))

\* The filter callback: stat the entry, keep regular files with a
\* recognized extension, skip what cannot be stat-ed.
Qualifies(fs, mdx, resolvedPath, file) ==
  LET st == StatSync(fs, Join(resolvedPath, file))
  IN st.ok /\ st.val.kind = "file" /\ RecognizedExt(mdx, ToLowerCase(Extname(file)))

RECURSIVE Filter(_, _, _, _)
Filter(fs, mdx, resolvedPath, list) ==
  IF list = <<>> THEN <<>>
  ELSE (IF Qualifies(fs, mdx, resolvedPath, Head(list)) THEN <<Head(list)>> ELSE <<>>)
         \o Filter(fs, mdx, resolvedPath, Tail(list))

NoFilesMessage(mdx) ==
  IF mdx THEN "No .md or .mdx files found in directory: "
         ELSE "No .md files found in directory: "

\* Variant: a directory without qualifying files gives an empty result.
MdOpen_allowsEmpty(fs, wd, mdx, dirPath) ==
  LET resolvedPath == Resolve(wd, dirPath)
      st == StatSync(fs, resolvedPath)
      ls == ReaddirSync(fs, resolvedPath)
  IN IF ~st.ok
       THEN Thrown(ContentError(<<"Failed to access directory: ">> \o st.msg,
                                <<resolvedPath>>, <<>>))
     ELSE IF st.val.kind # "dir"
       THEN Thrown(ContentError(<<"Path is not a directory: ">> \o resolvedPath,
                                <<resolvedPath>>, <<>>))
     ELSE IF ~ls.ok
       THEN Thrown(ContentError(<<"Failed to read directory: ">> \o ls.msg,
                                <<resolvedPath>>, <<>>))
     ELSE Returned(Filter(fs, mdx, resolvedPath, ls.val.list))

\* Variant: the directory is listed before the target is examined.
MdOpen_listsFirst(fs, wd, mdx, dirPath) ==
  LET resolvedPath == Resolve(wd, dirPath)
      ls == ReaddirSync(fs, resolvedPath)
      mdFiles == Filter(fs, mdx, resolvedPath, ls.val.list)
  IN IF ~ls.ok
       THEN Thrown(ContentError(<<"Failed to read directory: ">> \o ls.msg,
                                <<resolvedPath>>, <<>>))
     ELSE IF Len(mdFiles) = 0
       THEN Thrown(ContentError(<<NoFilesMessage(mdx)>> \o resolvedPath,
                                <<resolvedPath>>, <<>>))
     ELSE Returned(mdFiles)

\* loadMarkdownCollection up to its loop: the qualifying file names.
MdOpen(fs, wd, mdx, dirPath) ==
  LET resolvedPath == Resolve(wd, dirPath)
      st == StatSync(fs, resolvedPath)
      ls == ReaddirSync(fs, resolvedPath)
      mdFiles == Filter(fs, mdx, resolvedPath, ls.val.list)
  IN IF ~st.ok
       THEN Thrown(ContentError(<<"Failed to access directory: ">> \o st.msg,
                                <<resolvedPath>>, <<>>))
     ELSE IF st.val.kind # "dir"
       THEN Thrown(ContentError(<<"Path is not a directory: ">> \o resolvedPath,
                                <<resolvedPath>>, <<>>))
     ELSE IF ~ls.ok
       THEN Thrown(ContentError(<<"Failed to read directory: ">> \o ls.msg,
                                <<resolvedPath>>, <<>>))
     ELSE IF Len(mdFiles) = 0
       THEN Thrown(ContentError(<<NoFilesMessage(mdx)>> \o resolvedPath,
                                <<resolvedPath>>, <<>>))
     ELSE Returned(mdFiles)

\* The statSync and readdirSync calls loadMarkdownCollection makes before
\* its loop, in order: the target, its listing, then each entry (the
\* filter callback swallows what an entry's stat throws).
MdSyscalls(fs, wd, dirPath) ==
  LET resolvedPath == Resolve(wd, dirPath)
      st == StatSync(fs, resolvedPath)
      ls == ReaddirSync(fs, resolvedPath)
  IN <<[call |-> "statSync", path |-> resolvedPath]>>
       \o (IF st.ok /\ st.val.kind = "dir"
             THEN <<[call |-> "readdirSync", path |-> resolvedPath]>>
                    \o (IF ls.ok
                          THEN [n \in 1..Len(ls.val.list) |->
                                  [call |-> "statSync",
                                   path |-> Join(resolvedPath, ls.val.list[n])]]
                          ELSE <<>>)
             ELSE <<>>)

\* Variant: the record is the frontmatter alone.
MdRecord_noBody(data, content) == Obj(data)

\* Variant: `{ body: parsed.content, ...parsed.data }`.
MdRecord_frontmatterWins(data, content) ==
  Obj(IF data.body.t # "absent" THEN data ELSE [data EXCEPT !.body = Str(content)])

\* `{ ...parsed.data, body: parsed.content }`
MdRecord(data, content) == Obj([data EXCEPT !.body = Str(content)])

\* Variant: a failing file is reported under the directory's path.
MdItem_blamesDirectory(fs, wd, dirPath, file) ==
  LET filePath == Join(Resolve(wd, dirPath), file)
      r == ReadFileSync(fs, filePath)
      parsed == Matter(r.val.text)
  IN IF ~r.ok
       THEN Thrown(ContentError(<<"Failed to read file: ">> \o r.msg,
                                <<Resolve(wd, dirPath)>>, <<>>))
     ELSE IF ~parsed.ok
       THEN Thrown(ContentError(<<"Failed to parse frontmatter: ">> \o parsed.err.message,
                                <<Resolve(wd, dirPath)>>, <<>>))
     ELSE Returned(MdRecord(parsed.val[1], parsed.val[2]))

\* One iteration of loadMarkdownCollection's loop, for one file name.
MdItem(fs, wd, dirPath, file) ==
  LET filePath == Join(Resolve(wd, dirPath), file)
      r == ReadFileSync(fs, filePath)
      parsed == Matter(r.val.text)
  IN IF ~r.ok
       THEN Thrown(ContentError(<<"Failed to read file: ">> \o r.msg,
                                <<filePath>>, <<>>))
     ELSE IF ~parsed.ok
       THEN Thrown(ContentError(<<"Failed to parse frontmatter: ">> \o parsed.err.message,
                                <<filePath>>, <<>>))
     ELSE Returned(MdRecord(parsed.val[1], parsed.val[2]))

----------------------------------------------------------------------------
(* validate.ts *)

\* Variant: the raw item is pushed in place of result.data.
ValidateItem_pushesRaw(schema, filePath, item, i) ==
  LET result == SafeParse(schema, item)
  IN IF ~result.success
       THEN Thrown(ContentError(<<"Validation failed: ">> \o JoinErrors(result.errors),
                                <<filePath>>, <<i>>))
       ELSE Returned(item)

\* Variant: the reported position counts from one.
ValidateItem_countsFromOne(schema, filePath, item, i) ==
  LET result == SafeParse(schema, item)
  IN IF ~result.success
       THEN Thrown(ContentError(<<"Validation failed: ">> \o JoinErrors(result.errors),
                                <<filePath>>, <<i + 1>>))
       ELSE Returned(result.data)

\* One iteration of validateItems' loop, for item i (0-based).
ValidateItem(schema, filePath, item, i) ==
  LET result == SafeParse(schema, item)
  IN IF ~result.success
       THEN Thrown(ContentError(<<"Validation failed: ">> \o JoinErrors(result.errors),
                                <<filePath>>, <<i>>))
       ELSE Returned(result.data)

----------------------------------------------------------------------------
(* defineCollection.ts *)

\* config.format ?? (extname(path).toLowerCase() === '.json' ? 'json' : 'md')
InferFormat(config) ==
  IF config.format # <<>> THEN config.format[1]
  ELSE IF ToLowerCase(Extname(config.path)) = <<".", "json">> THEN "json"
  ELSE "md"

\* The callback of items.find: `item.id === id`; reading .id of null throws.
IdMatches(item, id) == item.f.id = Str(id)

RECURSIVE Find(_, _)
Find(seq, id) ==
  IF seq = <<>> THEN Returned(Undefined)
  ELSE IF Head(seq).k \in {"null", "undefined"}
    THEN Thrown(RawError("TypeError", <<"Cannot read properties of null (reading 'id')">>))
  ELSE IF IdMatches(Head(seq), id) THEN Returned(Head(seq))
  ELSE Find(Tail(seq), id)

\* getById(id)
GetById(seq, id) == Find(seq, id)

----------------------------------------------------------------------------
(* The inputs that are explored *)

Rec(id, title, contentPath, body) ==
  Obj([id |-> id, title |-> title, contentPath |-> contentPath, body |-> body])

AMd == <<"a", ".", "md">>

BMd == <<"b", ".", "md">>

RecA == Rec(Str(<<"a">>), Str(<<"T">>), Absent, Absent)

RecB == Rec(Str(<<"b">>), Absent, Absent, Absent)

RecLinkA == Rec(Str(<<"a">>), Absent, Str(AMd), Absent)

RecLinkB == Rec(Str(<<"b">>), Str(<<"T">>), Str(BMd), Str(<<"own">>))

RecNumPath == Rec(Str(<<"a">>), Absent, Num(<<"42">>), Absent)

RecEmptyPath == Rec(Str(<<"b">>), Absent, Str(<<>>), Absent)

RecBlankPath == Rec(Absent, Str(<<"T">>), Str(<<" ">>), Absent)

RecNumId == Rec(Num(<<"1">>), Str(<<"T">>), Absent, Absent)

RecZ == Rec(Str(<<"z">>), Absent, Absent, Absent)

ElemsSmall == {RecA, RecB, RecLinkA, Null}

ElemsRich ==
  {RecA, RecB, RecLinkA, RecLinkB, RecNumPath, RecEmptyPath, RecBlankPath,
   RecNumId, Null, Prim("num", <<"7">>)}

SeqsUpTo(S, n) == UNION {[1..m -> S] : m \in 0..n}

\* Sequences of distinct members of S (a directory lists a name once).
Listings(S, n) == {l \in SeqsUpTo(S, n) : \A x, y \in 1..Len(l) : l[x] = l[y] => x = y}

\* File texts.
TextA == <<"Body A">>

TextB == <<"---", "id", "x", "---", "Body B">>

TextC == <<"Body C">>

\* Directory entries, by name: what a stat and a read of each finds.
P1 == <<"p1", ".", "md">>

P2 == <<"p2", ".", "MD">>

P3 == <<"p3", ".", "mdx">>

Notes == <<"notes", ".", "txt">>

SubDir == <<"sub", ".", "md">>

Ghost == <<"ghost", ".", "md">>

BadFm == <<"bad", ".", "md">>

Locked == <<"locked", ".", "md">>

Collide == <<"collide", ".", "md">>

EntryNode(name) ==
  CASE name = P1 -> TextFile(<<"---", "id", "a", "title", "T", "---", "Hello">>)
    [] name = P2 -> TextFile(<<"Plain">>)
    [] name = P3 -> TextFile(<<"---", "id", "b", "---", "Mdx">>)
    [] name = Notes -> TextFile(<<"notes">>)
    [] name = SubDir -> DirNode(<<>>)
    [] name = BadFm -> TextFile(<<"---", "id", "!", "---", "Broken">>)
    [] name = Locked -> DeniedFile
    [] name = Collide -> TextFile(<<"---", "id", "b", "body", "fm", "---", "Real">>)
    [] OTHER -> MissingNode

NamesSmall == {P1, P3, Notes, BadFm}

NamesRich == {P1, P2, P3, Notes, SubDir, Ghost, BadFm, Locked, Collide}

Cwd0 == <<"/", "w">>

\* A filesystem holding `node` at path p, the link targets beside it and a
\* different a.md in the working directory.
FsAt(wd, p, node, mdA, mdB) ==
  LET at == Resolve(wd, p)
      dir == Dirname(at)
  IN (at :> node) @@ (Join(dir, AMd) :> mdA) @@ (Join(dir, BMd) :> mdB)
       @@ (Join(wd, AMd) :> TextFile(TextC))

\* A filesystem holding a directory at path p with the entries `list`.
FsDir(wd, p, list) ==
  LET at == Resolve(wd, p)
  IN [q \in {at} \cup {Join(at, list[n]) : n \in 1..Len(list)} |->
        IF q = at THEN DirNode(list)
        ELSE EntryNode(CHOOSE nm \in {list[n] : n \in 1..Len(list)} : Join(at, nm) = q)]

\* Schemas.
SchemaStrict == ZodObject(<<"id", "title">>, "strip")

SchemaLoose == ZodObject(<<"id">>, "passthrough")

\* User transforms: (items) => items.
Transforms == {"identity", "reverse", "dropFirst", "replace", "throws"}

ApplyTransform(kind, seq) ==
  CASE kind = "identity" -> Returned(seq)
    [] kind = "reverse" -> Returned([n \in 1..Len(seq) |-> seq[Len(seq) + 1 - n]])
    [] kind = "dropFirst" -> Returned(IF seq = <<>> THEN seq ELSE Tail(seq))
    [] kind = "replace" -> Returned(<<RecZ, RecNumId>>)
    [] OTHER -> Thrown(RawError("Error", <<"transform failed">>))

\* An optional argument or property: absent, or one value.
Opt(S) == {<<>>} \cup {<<x>> : x \in S}

\* Arguments of a ContentError constructed directly; <<>> among the paths
\* is the empty string.
Messages ==
  {<<"Test error">>, <<"Validation failed: ", "id", ": ", "Required">>, <<>>,
   <<"JSON parse error">>}

ErrorPaths ==
  {<<>>, <<"/", "path", "/", "to", "/", "file", ".", "json">>,
   <<"content", "/", "x", ".", "json">>}

----------------------------------------------------------------------------
(* State *)

VARIABLES
  cwd,          \* process working directory
  fsys,         \* the filesystem
  mdxBuild,     \* which copy of loadMarkdownCollection is built (TRUE: .md and .mdx)
  entry,        \* the exported function the caller invoked
  cfg,          \* its configuration: path, format?, schema?, transform?
  pc,           \* where the call stands
  fmt,          \* defineCollection's format
  data,         \* loadJsonCollection's parsed array
  mdFiles,      \* loadMarkdownCollection's qualifying file names
  loaderItems,  \* the running loader's local items
  validated,    \* validateItems' local validated
  idx,          \* the running loop's index
  items,        \* defineCollection's items (validateItems' argument when called directly)
  err,          \* the exception that left the call, if one did
  reads,        \* history: paths handed to readFileSync, in order
  parsed,       \* history: indices handed to schema.safeParse, in order
  tlog,         \* history: arguments of each invocation of the transform
  trace,        \* history: the stages that completed, with input and output
  frozen,       \* history: items when the collection was constructed
  handle,       \* the caller holds an array all() returned
  nmut,         \* mutations the caller applied through it
  ret,          \* what the caller's latest all() or getById() gave
  prior,        \* history: the earlier calls of this process, oldest first
  sys           \* history: the stat and readdir calls of the directory scan

vars ==
  <<cwd, fsys, mdxBuild, entry, cfg, pc, fmt, data, mdFiles, loaderItems,
    validated, idx, items, err, reads, parsed, tlog, trace, frozen, handle,
    nmut, ret, prior, sys>>

\* What no step of a running call writes.
env == <<cwd, fsys, mdxBuild, entry, cfg, prior>>

caller == <<frozen, handle, nmut, ret>>

NoRet == [op |-> "none", id |-> <<>>, val |-> <<>>, threw |-> FALSE]

Stage(name, in, out) == [stage |-> name, in |-> in, out |-> out]

\* Where control goes when the loader returns, and when validation returns.
AfterValidate ==
  IF entry # "defineCollection" THEN "returned"
  ELSE IF cfg.transform # <<>> THEN "transform"
  ELSE "construct"

\* Variant: a configured transform makes the call skip validation.
AfterLoad_skipsValidation ==
  IF entry # "defineCollection" THEN "returned"
  ELSE IF cfg.schema # <<>> /\ cfg.transform = <<>> THEN "validate"
  ELSE AfterValidate

AfterLoad ==
  IF entry # "defineCollection" THEN "returned"
  ELSE IF cfg.schema # <<>> THEN "validate"
  ELSE AfterValidate

\* An exception propagates out of the call.
Fail(e) == pc' = "failed" /\ err' = e

----------------------------------------------------------------------------
(* defineCollection: format inference *)

Infer ==
  /\ pc = "infer"
  /\ fmt' = InferFormat(cfg)
  /\ pc' = IF InferFormat(cfg) = "json" THEN "json" ELSE "md"
  /\ UNCHANGED <<env, sys, caller, data, mdFiles, loaderItems, validated, idx, items,
                 err, reads, parsed, tlog, trace>>

(* loadJsonCollection *)

OpenJson ==
  /\ pc = "json"
  /\ LET r == JsonOpen(fsys, cwd, cfg.path)
     IN /\ reads' = Append(reads, Resolve(cwd, cfg.path))
        /\ IF r.ok
             THEN /\ data' = r.val
                  /\ pc' = "link"
                  /\ UNCHANGED err
             ELSE /\ Fail(r.err)
                  /\ UNCHANGED data
  /\ loaderItems' = <<>>
  /\ idx' = 0
  /\ UNCHANGED <<env, sys, caller, fmt, mdFiles, validated, items, parsed, tlog, trace>>

LinkNext ==
  /\ pc = "link"
  /\ idx < Len(data)
  /\ LET item == data[idx + 1]
         r == LinkItem(fsys, cwd, cfg.path, item, idx)
     IN /\ reads' = IF LinkActive(item)
                      THEN Append(reads, LinkTarget(cwd, cfg.path, item))
                      ELSE reads
        /\ IF r.ok
             THEN /\ loaderItems' = Push(loaderItems, r.val)
                  /\ idx' = idx + 1
                  /\ UNCHANGED <<pc, err>>
             ELSE /\ Fail(r.err)
                  /\ UNCHANGED <<loaderItems, idx>>
  /\ UNCHANGED <<env, sys, caller, fmt, data, mdFiles, validated, items, parsed, tlog, trace>>

JsonReturn ==
  /\ pc = "link"
  /\ idx = Len(data)
  /\ items' = loaderItems
  /\ trace' = Append(trace, Stage("load", <<>>, loaderItems))
  /\ pc' = AfterLoad
  /\ idx' = 0
  /\ UNCHANGED <<env, sys, caller, fmt, data, mdFiles, loaderItems, validated, err,
                 reads, parsed, tlog>>

(* loadMarkdownCollection *)

OpenMd ==
  /\ pc = "md"
  /\ LET r == MdOpen(fsys, cwd, mdxBuild, cfg.path)
     IN IF r.ok
          THEN /\ mdFiles' = r.val
               /\ pc' = "mdfile"
               /\ UNCHANGED err
          ELSE /\ Fail(r.err)
               /\ UNCHANGED mdFiles
  /\ loaderItems' = <<>>
  /\ idx' = 0
  /\ sys' = MdSyscalls(fsys, cwd, cfg.path)
  /\ UNCHANGED <<env, caller, fmt, data, validated, items, reads, parsed, tlog, trace>>

MdNext ==
  /\ pc = "mdfile"
  /\ idx < Len(mdFiles)
  /\ LET file == mdFiles[idx + 1]
         r == MdItem(fsys, cwd, cfg.path, file)
     IN /\ reads' = Append(reads, Join(Resolve(cwd, cfg.path), file))
        /\ IF r.ok
             THEN /\ loaderItems' = Push(loaderItems, r.val)
                  /\ idx' = idx + 1
                  /\ UNCHANGED <<pc, err>>
             ELSE /\ Fail(r.err)
                  /\ UNCHANGED <<loaderItems, idx>>
  /\ UNCHANGED <<env, sys, caller, fmt, data, mdFiles, validated, items, parsed, tlog, trace>>

MdReturn ==
  /\ pc = "mdfile"
  /\ idx = Len(mdFiles)
  /\ items' = loaderItems
  /\ trace' = Append(trace, Stage("load", <<>>, loaderItems))
  /\ pc' = AfterLoad
  /\ idx' = 0
  /\ UNCHANGED <<env, sys, caller, fmt, data, mdFiles, loaderItems, validated, err,
                 reads, parsed, tlog>>

(* validateItems *)

ValidateNext ==
  /\ pc = "validate"
  /\ idx < Len(items)
  /\ LET r == ValidateItem(cfg.schema[1], cfg.path, items[idx + 1], idx)
     IN /\ parsed' = Append(parsed, idx)
        /\ IF r.ok
             THEN /\ validated' = Push(validated, r.val)
                  /\ idx' = idx + 1
                  /\ UNCHANGED <<pc, err>>
             ELSE /\ Fail(r.err)
                  /\ UNCHANGED <<validated, idx>>
  /\ UNCHANGED <<env, sys, caller, fmt, data, mdFiles, loaderItems, items, reads, tlog, trace>>

ValidateReturn ==
  /\ pc = "validate"
  /\ idx = Len(items)
  /\ items' = validated
  /\ trace' = Append(trace, Stage("validate", items, validated))
  /\ pc' = AfterValidate
  /\ UNCHANGED <<env, sys, caller, fmt, data, mdFiles, loaderItems, validated, idx, err,
                 reads, parsed, tlog>>

(* defineCollection: the transform and the collection object *)

\* Variant: what the transform returns is put through the schema again,
\* and the records it rejects are dropped.
Transform_revalidates ==
  /\ pc = "transform"
  /\ LET r == ApplyTransform(cfg.transform[1], items)
         accepted == IF cfg.schema = <<>> THEN r.val
                     ELSE SelectSeq(r.val, LAMBDA x : SafeParse(cfg.schema[1], x).success)
     IN /\ tlog' = Append(tlog, items)
        /\ IF r.ok
             THEN /\ items' = IF cfg.schema = <<>> THEN r.val
                              ELSE [n \in 1..Len(accepted) |->
                                      SafeParse(cfg.schema[1], accepted[n]).data]
                  /\ trace' = Append(trace, Stage("transform", items, r.val))
                  /\ pc' = "construct"
                  /\ UNCHANGED err
             ELSE /\ Fail(r.err)
                  /\ UNCHANGED <<items, trace>>
  /\ UNCHANGED <<env, sys, caller, fmt, data, mdFiles, loaderItems, validated, idx,
                 reads, parsed>>

Transform ==
  /\ pc = "transform"
  /\ LET r == ApplyTransform(cfg.transform[1], items)
     IN /\ tlog' = Append(tlog, items)
        /\ IF r.ok
             THEN /\ items' = r.val
                  /\ trace' = Append(trace, Stage("transform", items, r.val))
                  /\ pc' = "construct"
                  /\ UNCHANGED err
             ELSE /\ Fail(r.err)
                  /\ UNCHANGED <<items, trace>>
  /\ UNCHANGED <<env, sys, caller, fmt, data, mdFiles, loaderItems, validated, idx,
                 reads, parsed>>

Construct ==
  /\ pc = "construct"
  /\ pc' = "ready"
  /\ frozen' = items
  /\ UNCHANGED <<env, sys, fmt, data, mdFiles, loaderItems, validated, idx, items, err,
                 reads, parsed, tlog, trace, handle, nmut, ret>>

(* loadMarkdownFile called directly *)

ReadMarkdown ==
  /\ pc = "mdread"
  /\ LET r == LoadMarkdownFile(fsys, cwd, cfg.path)
     IN /\ reads' = Append(reads, Resolve(cwd, cfg.path))
        /\ IF r.ok
             THEN /\ pc' = "returned"
                  /\ ret' = [op |-> "loadMarkdownFile", id |-> <<>>, val |-> r.val,
                             threw |-> FALSE]
                  /\ UNCHANGED err
             ELSE /\ Fail(r.err)
                  /\ UNCHANGED ret
  /\ UNCHANGED <<env, sys, fmt, data, mdFiles, loaderItems, validated, idx, items,
                 parsed, tlog, trace, frozen, handle, nmut>>

(* ContentError constructed directly and rendered *)

NewContentError ==
  /\ pc = "new"
  /\ \E message \in Messages, filePath \in Opt(ErrorPaths), itemIndex \in Opt(0..MaxIndex) :
       err' = ContentError(message, filePath, itemIndex)
  /\ pc' = "thrown"
  /\ UNCHANGED <<env, sys, caller, fmt, data, mdFiles, loaderItems, validated, idx, items,
                 reads, parsed, tlog, trace>>

ToStringCall ==
  /\ pc = "thrown"
  /\ pc' = "rendered"
  /\ ret' = [op |-> "toString", id |-> <<>>, val |-> toString(err), threw |-> FALSE]
  /\ UNCHANGED <<env, sys, fmt, data, mdFiles, loaderItems, validated, idx, items, err,
                 reads, parsed, tlog, trace, frozen, handle, nmut>>

(* A further defineCollection call in the same process *)

\* Variant: validateItems' array is kept from the call before.
NewArray_kept == validated

\* `const validated: T[] = []`: each call allocates its own array.
NewArray == <<>>

\* The sources the filesystem may hold at path p when the next call runs.
Rewrites(p) ==
  {FsAt(Cwd0, p, JsonFile(JsonArray(arr)), mdA, TextFile(TextB)) :
     arr \in Listings({RecA, RecLinkA}, MaxLen), mdA \in {TextFile(TextA), TextFile(TextC)}}
    \cup {FsDir(Cwd0, p, l) : l \in Listings({P1, P2}, MaxLen)}
    \cup {FsAt(Cwd0, p, MissingNode, MissingNode, MissingNode)}

\* The call before has completed or failed; its result stays with the
\* caller, the source may have been rewritten, and the new call starts
\* with locals of its own.
Again ==
  /\ pc \in {"ready", "failed"}
  /\ Len(prior) < MaxCalls - 1
  /\ prior' = Append(prior, [cfg |-> cfg, fsys |-> fsys, pc |-> pc, err |-> err,
                             frozen |-> frozen, items |-> items])
  /\ fsys' \in Rewrites(cfg.path)
  /\ pc' = "infer"
  /\ fmt' = ""
  /\ data' = <<>>
  /\ mdFiles' = <<>>
  /\ loaderItems' = <<>>
  /\ validated' = NewArray
  /\ idx' = 0
  /\ items' = <<>>
  /\ err' = NoError
  /\ reads' = <<>>
  /\ parsed' = <<>>
  /\ tlog' = <<>>
  /\ trace' = <<>>
  /\ frozen' = <<>>
  /\ handle' = FALSE
  /\ nmut' = 0
  /\ ret' = NoRet
  /\ sys' = <<>>
  /\ UNCHANGED <<cwd, mdxBuild, entry, cfg>>

----------------------------------------------------------------------------
(* The caller of a constructed collection *)

QueryIds == {<<"a">>, <<"z">>}

\* all(): `return items` hands out the array the collection itself holds.
All ==
  /\ pc = "ready"
  /\ ret' = [op |-> "all", id |-> <<>>, val |-> items, threw |-> FALSE]
  /\ handle' = TRUE
  /\ UNCHANGED <<env, sys, pc, fmt, data, mdFiles, loaderItems, validated, idx, items,
                 err, reads, parsed, tlog, trace, frozen, nmut>>

CallGetById ==
  /\ pc = "ready"
  /\ \E id \in QueryIds :
       LET r == GetById(items, id)
       IN ret' = [op |-> "getById", id |-> <<id>>,
                  val |-> IF r.ok /\ r.val # Undefined THEN <<r.val>> ELSE <<>>,
                  threw |-> ~r.ok]
  /\ UNCHANGED <<env, sys, pc, fmt, data, mdFiles, loaderItems, validated, idx, items,
                 err, reads, parsed, tlog, trace, frozen, handle, nmut>>

\* The caller mutates the array it was handed, which is `items` itself.
Mutated(seq) ==
  {Append(seq, RecZ)}
    \cup (IF seq = <<>> THEN {}
          ELSE {SubSeq(seq, 1, Len(seq) - 1),
                [seq EXCEPT ![1] = RecZ],
                [n \in 1..Len(seq) |-> seq[Len(seq) + 1 - n]]})

Mutate ==
  /\ pc = "ready"
  /\ handle
  /\ nmut < MaxMut
  /\ items' \in Mutated(items)
  /\ nmut' = nmut + 1
  /\ UNCHANGED <<env, sys, pc, fmt, data, mdFiles, loaderItems, validated, idx, err,
                 reads, parsed, tlog, trace, frozen, handle, ret>>

----------------------------------------------------------------------------
(* Specifications *)

\* Every local of a call that has not started, and the caller's view.
Fresh ==
  /\ fmt = ""
  /\ data = <<>>
  /\ mdFiles = <<>>
  /\ loaderItems = <<>>
  /\ validated = <<>>
  /\ idx = 0
  /\ err = NoError
  /\ reads = <<>>
  /\ parsed = <<>>
  /\ tlog = <<>>
  /\ trace = <<>>
  /\ frozen = <<>>
  /\ handle = FALSE
  /\ nmut = 0
  /\ ret = NoRet
  /\ prior = <<>>
  /\ sys = <<>>

Idle == cwd = Cwd0 /\ Fresh

JsonPath == <<"content", "/", "x", ".", "json">>

DirPath == <<"posts">>

\* Filesystems with something, or nothing, at path p.
FsJsonArrays(p, elems) ==
  {FsAt(Cwd0, p, JsonFile(JsonArray(arr)), mdA, TextFile(TextB)) :
     arr \in SeqsUpTo(elems, MaxLen), mdA \in {TextFile(TextA), MissingNode}}

FsDirs(p, names, n) == {FsDir(Cwd0, p, l) : l \in Listings(names, n)}

FsOdd(p) ==
  {FsAt(Cwd0, p, n, TextFile(TextA), TextFile(TextB)) :
     n \in {MissingNode, DeniedFile, JsonFile(NoJson), JsonFile(JsonTop("object")),
            JsonFile(JsonTop("null")), JsonFile(JsonTop("string"))}}

HoldsDir(fs, p) == Lookup(fs, Resolve(Cwd0, p)).kind = "dir"

\* defineCollection on every configuration, over small sources.
Init ==
  /\ Idle
  /\ entry = "defineCollection"
  /\ pc = "infer"
  /\ items = <<>>
  /\ cfg \in [path : {JsonPath, DirPath},
              format : Opt({"json", "md"}),
              schema : Opt({SchemaStrict, SchemaLoose}),
              transform : Opt(Transforms)]
  /\ fsys \in FsJsonArrays(cfg.path, ElemsSmall)
                \cup FsDirs(cfg.path, NamesSmall, MaxLen) \cup FsOdd(cfg.path)
  \* only a directory scan reads mdxBuild
  /\ mdxBuild \in IF HoldsDir(fsys, cfg.path) THEN BOOLEAN ELSE {FALSE}

Next ==
  \/ Infer
  \/ OpenJson
  \/ LinkNext
  \/ JsonReturn
  \/ OpenMd
  \/ MdNext
  \/ MdReturn
  \/ ValidateNext
  \/ ValidateReturn
  \/ Transform
  \/ Construct
  \/ All
  \/ CallGetById
  \/ Mutate

Spec == Init /\ [][Next]_vars

\* defineCollection on every shape of path, over the smallest sources.
PathsAll ==
  {<<"x", ".", "json">>, <<"x", ".", "JSON">>, <<"x", ".", "Json">>,
   <<"d", "/", ".", "json">>, <<".", "json">>, <<"x", ".", "json", "/">>,
   <<"x", ".", "json", ".", "md">>, <<"x", "json">>, <<"posts">>, <<"posts", ".", "md">>}

InitFormat ==
  /\ Idle
  /\ entry = "defineCollection"
  /\ pc = "infer"
  /\ items = <<>>
  /\ cfg \in [path : PathsAll,
              format : Opt({"json", "md"}),
              schema : Opt({SchemaLoose}),
              transform : Opt({"reverse"})]
  /\ fsys \in FsJsonArrays(cfg.path, {RecA, RecB}) \cup FsDirs(cfg.path, {P1, Notes}, MaxLen)
  /\ mdxBuild = FALSE

SpecFormat == InitFormat /\ [][Next]_vars

\* loadJsonCollection called directly, over every array of the rich elements.
InitJson ==
  /\ Idle
  /\ entry = "loadJsonCollection"
  /\ pc = "json"
  /\ items = <<>>
  /\ cfg = [path |-> JsonPath, format |-> <<>>, schema |-> <<>>, transform |-> <<>>]
  /\ fsys \in {FsAt(Cwd0, JsonPath, JsonFile(JsonArray(arr)), mdA, mdB) :
                 arr \in SeqsUpTo(ElemsRich, MaxItems),
                 mdA \in {TextFile(TextA), MissingNode, DeniedFile},
                 mdB \in {TextFile(TextB), MissingNode}}
                \cup FsOdd(JsonPath)
                \cup {FsAt(Cwd0, JsonPath, JsonFile(JsonTop(k)), TextFile(TextA),
                            TextFile(TextB)) : k \in {"number", "boolean"}}
  /\ mdxBuild = FALSE

NextJson == OpenJson \/ LinkNext \/ JsonReturn

SpecJson == InitJson /\ [][NextJson]_vars

\* loadMarkdownCollection called directly, over every listing of the rich names.
InitMd ==
  /\ Idle
  /\ entry = "loadMarkdownCollection"
  /\ pc = "md"
  /\ items = <<>>
  /\ cfg = [path |-> DirPath, format |-> <<>>, schema |-> <<>>, transform |-> <<>>]
  /\ fsys \in FsDirs(DirPath, NamesRich, MaxItems) \cup FsOdd(DirPath)
  /\ mdxBuild \in BOOLEAN

NextMd == OpenMd \/ MdNext \/ MdReturn

SpecMd == InitMd /\ [][NextMd]_vars

\* validateItems called directly: validateItems(items, schema, filePath).
TestPath == <<"/", "test", ".", "json">>

InitValidate ==
  /\ Idle
  /\ entry = "validateItems"
  /\ pc = "validate"
  /\ items \in SeqsUpTo(ElemsRich \cup {WithBody(RecA, TextA)}, MaxItems)
  /\ cfg \in [path : {TestPath, JsonPath},
              format : {<<>>},
              schema : {<<SchemaStrict>>, <<SchemaLoose>>},
              transform : {<<>>}]
  /\ fsys = FsAt(Cwd0, cfg.path, MissingNode, MissingNode, MissingNode)
  /\ mdxBuild = FALSE

NextValidate == ValidateNext \/ ValidateReturn

SpecValidate == InitValidate /\ [][NextValidate]_vars

\* loadJsonCollection called from two working directories on one
\* filesystem: the JSON file sits at an absolute path and under /w, and
\* each working directory holds an a.md of its own.
Cwd1 == <<"/", "v">>

AbsJsonPath == <<"/", "data", "/", "x", ".", "json">>

TextV == <<"Body V">>

RecLinkAbs == Rec(Absent, Absent, Str(<<"/", "w", "/", "a", ".", "md">>), Absent)

ElemsLinked == {RecA, RecLinkA, RecLinkB, RecLinkAbs}

FsWorld(arr, mdA) ==
  FsAt(Cwd0, AbsJsonPath, JsonFile(JsonArray(arr)), mdA, TextFile(TextB))
    @@ FsAt(Cwd0, JsonPath, JsonFile(JsonArray(arr)), mdA, MissingNode)
    @@ (Join(Cwd1, AMd) :> TextFile(TextV))

InitCwd ==
  /\ Fresh
  /\ cwd \in {Cwd0, Cwd1}
  /\ entry = "loadJsonCollection"
  /\ pc = "json"
  /\ items = <<>>
  /\ cfg \in [path : {AbsJsonPath, JsonPath}, format : {<<>>}, schema : {<<>>},
              transform : {<<>>}]
  /\ fsys \in {FsWorld(arr, mdA) : arr \in SeqsUpTo(ElemsLinked, MaxItems),
                                   mdA \in {TextFile(TextA), MissingNode}}
  /\ mdxBuild = FALSE

SpecCwd == InitCwd /\ [][NextJson]_vars

\* loadMarkdownFile called directly, from either working directory, on
\* every kind of node.
FilePaths ==
  {AMd, <<"a", ".", "mdx">>, <<"notes">>, <<"docs", "/", "a", ".", "md">>,
   <<"docs", "/", "/", "a", ".", "md">>, <<"/", "abs", "/", "a", ".", "md">>}

FileNodes ==
  {TextFile(TextA), TextFile(TextB), TextFile(<<>>), MissingNode, DeniedFile,
   DirNode(<<>>)}

InitFile ==
  /\ Fresh
  /\ cwd \in {Cwd0, Cwd1}
  /\ entry = "loadMarkdownFile"
  /\ pc = "mdread"
  /\ items = <<>>
  /\ cfg \in [path : FilePaths, format : {<<>>}, schema : {<<>>}, transform : {<<>>}]
  /\ fsys \in {(Resolve(cwd, cfg.path) :> node) : node \in FileNodes}
  /\ mdxBuild = FALSE

NextFile == ReadMarkdown

SpecFile == InitFile /\ [][NextFile]_vars

\* new ContentError(message, filePath?, itemIndex?) and its toString().
InitError ==
  /\ Fresh
  /\ cwd = Cwd0
  /\ entry = "ContentError"
  /\ pc = "new"
  /\ items = <<>>
  /\ cfg = [path |-> <<>>, format |-> <<>>, schema |-> <<>>, transform |-> <<>>]
  /\ fsys = FsAt(Cwd0, cfg.path, MissingNode, MissingNode, MissingNode)
  /\ mdxBuild = FALSE

NextError == NewContentError \/ ToStringCall

SpecError ==
  /\ InitError
  /\ [][NextError]_vars

\* defineCollection called repeatedly with one configuration while the
\* source is rewritten in between.
InitTwice ==
  /\ Idle
  /\ entry = "defineCollection"
  /\ pc = "infer"
  /\ items = <<>>
  /\ cfg \in [path : {JsonPath, DirPath},
              format : {<<>>},
              schema : Opt({SchemaStrict}),
              transform : Opt({"reverse"})]
  /\ fsys \in Rewrites(cfg.path)
  /\ mdxBuild = FALSE

NextTwice ==
  \/ Infer
  \/ OpenJson
  \/ LinkNext
  \/ JsonReturn
  \/ OpenMd
  \/ MdNext
  \/ MdReturn
  \/ ValidateNext
  \/ ValidateReturn
  \/ Transform
  \/ Construct
  \/ All
  \/ Again

SpecTwice == InitTwice /\ [][NextTwice]_vars

----------------------------------------------------------------------------
(* Vocabulary of the properties *)

Min(S) == CHOOSE x \in S : \A y \in S : x <= y

Upto(n) == [k \in 1..n |-> k - 1]

\* The stages a configuration calls for, and the stages that have completed.
StagePlan ==
  <<"load">> \o (IF cfg.schema # <<>> THEN <<"validate">> ELSE <<>>)
             \o (IF cfg.transform # <<>> THEN <<"transform">> ELSE <<>>)

StagesDone == [n \in 1..Len(trace) |-> trace[n].stage]

\* The JSON array stored at the configured path (empty when there is none).
SourceArray == Lookup(fsys, Resolve(cwd, cfg.path)).json.arr

\* A cross-link as the specification words it: an object whose contentPath
\* is a string with at least one character that is not whitespace.
SpecLinked(e) ==
  /\ e.k = "obj"
  /\ e.f.contentPath.t = "str"
  /\ \E n \in 1..Len(e.f.contentPath.v) : e.f.contentPath.v[n] # " "

\* The file a cross-link names: contentPath against the JSON file's directory.
SpecTarget(e) ==
  Lookup(fsys, Resolve(Dirname(Resolve(cwd, cfg.path)), e.f.contentPath.v))

SpecLoads(e) == SpecTarget(e).kind = "file" /\ SpecTarget(e).perm = "ok"

\* The record an array element stands for once its link is followed.
Derived(e) ==
  IF SpecLinked(e)
    THEN [e EXCEPT !.f = [id |-> e.f.id, title |-> e.f.title,
                          contentPath |-> e.f.contentPath,
                          body |-> Str(SpecTarget(e).text)]]
    ELSE e

\* How many elements loadJsonCollection's loop has taken up so far.
Processed ==
  CASE pc = "returned" -> Len(data)
    [] pc = "failed" /\ data # <<>> -> idx + 1
    [] OTHER -> idx

\* The files the loop must have read so far: the targets of the linked
\* elements it has taken up, in order.
LinkReads ==
  LET linked == SelectSeq(SubSeq(data, 1, Processed), SpecLinked)
  IN [n \in 1..Len(linked) |->
        Resolve(Dirname(Resolve(cwd, cfg.path)), linked[n].f.contentPath.v)]

\* 0-based indices of the source records whose link cannot be loaded.
BadLinks ==
  {i \in 0..(Len(SourceArray) - 1) :
     SpecLinked(SourceArray[i + 1]) /\ ~SpecLoads(SourceArray[i + 1])}

\* 0-based indices of the items the schema rejects.
Rejected(schema, seq) ==
  {i \in 0..(Len(seq) - 1) : ~SafeParse(schema, seq[i + 1]).success}

----------------------------------------------------------------------------
C2_ValidateFailFast ==
  (entry = "validateItems" /\ Rejected(cfg.schema[1], items) # {}) =>
    LET i == Min(Rejected(cfg.schema[1], items))
    IN /\ pc \in {"validate", "failed"}
       /\ trace = <<>>
       /\ \A n \in 1..Len(parsed) : parsed[n] <= i
       /\ pc = "validate" => idx <= i /\ parsed = Upto(idx)
       /\ pc = "failed" =>
            /\ err = ContentError(err.message, <<cfg.path>>, <<i>>)
            /\ parsed = Upto(i + 1)

C2_Witness ==
  /\ entry = "validateItems"
  /\ pc = "failed"
  /\ err.itemIndex = <<1>>
  /\ Len(items) = 3
  /\ Len(validated) = 1
  /\ Rejected(cfg.schema[1], items) = {1, 2}

(* C3: in loadJsonCollection a record whose link cannot be loaded fails    *)
(* the whole load: the error carries the lowest failing index, the JSON    *)
(* path, and the message "Failed to load markdown content for item at      *)
(* index i: " followed by the reader's message; nothing is returned.       *)
C3_BadLinkFailsLoad ==
  (entry = "loadJsonCollection" /\ BadLinks # {}) =>
    LET i == Min(BadLinks)
        inner == LoadMarkdownFile(fsys, cwd,
                   Resolve(Dirname(Resolve(cwd, cfg.path)),
                           SourceArray[i + 1].f.contentPath.v)).err
    IN /\ pc \in {"json", "link", "failed"}
       /\ items = <<>>
       /\ trace = <<>>
       /\ pc = "link" => idx <= i
       /\ pc = "failed" =>
            err = ContentError(<<"Failed to load markdown content for item at index ",
                                 IndexStr(i), ": ">> \o inner.message,
                               <<cfg.path>>, <<i>>)

C3_Witness ==
  /\ entry = "loadJsonCollection"
  /\ pc = "failed"
  /\ err.itemIndex = <<1>>
  /\ BadLinks = {1, 2}
  /\ Len(loaderItems) = 1
  /\ err.message[4] = "Markdown file not found: "

(* C4: in loadJsonCollection an element is linked exactly when it is an    *)
(* object whose contentPath is a string that is not empty after trimming:  *)
(* it then yields its own fields plus body = the text of the file; every   *)
(* other element is included unchanged, is never the cause of an error,    *)
(* and no file is read for it.                                             *)
C4_LinkActivation ==
  entry = "loadJsonCollection" =>
    /\ \A n \in 1..Len(loaderItems) : loaderItems[n] = Derived(data[n])
    /\ \A n \in 1..Len(loaderItems) :
         ~SpecLinked(data[n]) => loaderItems[n] = SourceArray[n]
    /\ (pc = "failed" /\ data # <<>>) => SpecLinked(data[idx + 1])
    /\ reads # <<>> => Tail(reads) = LinkReads
    /\ pc = "returned" => items = [n \in 1..Len(SourceArray) |-> Derived(SourceArray[n])]

C4_Witness ==
  /\ entry = "loadJsonCollection"
  /\ pc = "returned"
  /\ items = <<RecBlankPath, WithBody(RecLinkA, TextA), RecNumPath>>

(* C5: for a JSON array of length N whose links all load, a collection     *)
(* defined without schema and transform is constructed, and all() returns  *)
(* N records, the i-th derived from the i-th element (to a caller that     *)
(* has not written through an earlier result).                             *)
C5_JsonOrderPreserved ==
  (/\ entry = "defineCollection"
   /\ InferFormat(cfg) = "json"
   /\ cfg.schema = <<>>
   /\ cfg.transform = <<>>
   /\ Lookup(fsys, Resolve(cwd, cfg.path)).json.valid
   /\ Lookup(fsys, Resolve(cwd, cfg.path)).json.top = "array"
   /\ BadLinks = {}) =>
    /\ pc # "failed"
    /\ pc = "ready" =>
         /\ Len(frozen) = Len(SourceArray)
         /\ \A n \in 1..Len(SourceArray) : frozen[n] = Derived(SourceArray[n])
         /\ (ret.op = "all" /\ nmut = 0) => ret.val = frozen

C5_Witness ==
  /\ entry = "defineCollection"
  /\ pc = "ready"
  /\ cfg.schema = <<>>
  /\ cfg.transform = <<>>
  /\ ret.op = "all"
  /\ nmut = 0
  /\ SourceArray = <<RecLinkA, RecA>>
  /\ ret.val = <<WithBody(RecLinkA, TextA), RecA>>

C5_WitnessDuplicates ==
  /\ pc = "ready"
  /\ cfg.schema = <<>>
  /\ cfg.transform = <<>>
  /\ ret.op = "all"
  /\ ret.val = <<RecB, RecB>>

(* C6: every failure that leaves defineCollection is a ContentError.       *)
C6_OnlyContentErrors ==
  (entry = "defineCollection" /\ pc = "failed") => err.name = "ContentError"

(* C7: a collection is immutable after construction: whatever the caller   *)
(* did to an array all() returned, all() keeps returning the sequence the  *)
(* collection was constructed with, and getById answers from it.           *)
C7_Immutable ==
  /\ ret.op = "all" => ret.val = frozen
  /\ (ret.op = "getById" /\ GetById(frozen, ret.id[1]).ok) =>
       /\ ~ret.threw
       /\ ret.val = (IF GetById(frozen, ret.id[1]).val = Undefined
                       THEN <<>> ELSE <<GetById(frozen, ret.id[1]).val>>)

\* The positions of the records whose id is the string `id`.
Matches(seq, id) ==
  {n \in 1..Len(seq) : seq[n].k = "obj" /\ seq[n].f.id.t = "str" /\ seq[n].f.id.v = id}

(* C8: getById(id) returns the record at the lowest position whose id is   *)
(* the given string, and undefined when there is none.                     *)
C8_GetByIdFirstMatch ==
  ret.op = "getById" =>
    /\ ~ret.threw
    /\ ret.val = (IF Matches(items, ret.id[1]) = {} THEN <<>>
                  ELSE <<items[Min(Matches(items, ret.id[1]))]>>)

\* The path's last characters are ".json", in any letter case.
EndsInDotJson(path) ==
  /\ Len(path) >= 2
  /\ path[Len(path) - 1] = "."
  /\ LowerTok(path[Len(path)]) = "json"

(* C9: without a format, a path ending in .json (any case) selects the     *)
(* JSON loader and every other path the Markdown loader; a given format    *)
(* is always used.                                                         *)
C9_FormatInference ==
  (entry = "defineCollection" /\ pc # "infer") =>
    fmt = (IF cfg.format # <<>> THEN cfg.format[1]
           ELSE IF EndsInDotJson(cfg.path) THEN "json" ELSE "md")

\* The listing of the configured directory (empty when there is none).
Listing == Lookup(fsys, Resolve(cwd, cfg.path)).list

\* A qualifying file: a regular file whose name ends in a recognized
\* extension, in any letter case.
SpecQualifies(name) ==
  /\ Lookup(fsys, Join(Resolve(cwd, cfg.path), name)).kind = "file"
  /\ Len(name) >= 2
  /\ name[Len(name) - 1] = "."
  /\ LowerTok(name[Len(name)]) \in (IF mdxBuild THEN {"md", "mdx"} ELSE {"md"})

QualifyingFiles == SelectSeq(Listing, SpecQualifies)

\* The record each readable, well-formed file of the listing stands for:
\* its frontmatter fields and, as body, the text after the frontmatter.
ExpectedRecord(name) ==
  CASE name = P1 -> Rec(Str(<<"a">>), Str(<<"T">>), Absent, Str(<<"Hello">>))
    [] name = P2 -> Rec(Absent, Absent, Absent, Str(<<"Plain">>))
    [] name = P3 -> Rec(Str(<<"b">>), Absent, Absent, Str(<<"Mdx">>))
    [] name = Collide -> Rec(Str(<<"b">>), Absent, Absent, Str(<<"Real">>))
    [] OTHER -> Undefined

Loadable(name) == name \in {P1, P2, P3, Collide}

(* C10: loadMarkdownCollection on a directory with N >= 1 qualifying       *)
(* files, all readable and parseable, returns N records in listing order,  *)
(* each the file's frontmatter fields plus body = the text after the       *)
(* frontmatter.                                                            *)
C10_MarkdownRoundTrip ==
  (/\ entry = "loadMarkdownCollection"
   /\ Lookup(fsys, Resolve(cwd, cfg.path)).kind = "dir"
   /\ QualifyingFiles # <<>>
   /\ \A n \in 1..Len(QualifyingFiles) : Loadable(QualifyingFiles[n])) =>
    /\ pc # "failed"
    /\ \A n \in 1..Len(loaderItems) : loaderItems[n] = ExpectedRecord(QualifyingFiles[n])
    /\ pc = "returned" =>
         items = [n \in 1..Len(QualifyingFiles) |-> ExpectedRecord(QualifyingFiles[n])]

C10_Witness ==
  /\ entry = "loadMarkdownCollection"
  /\ pc = "returned"
  /\ Listing = <<P2, Notes, P1>>
  /\ items = <<ExpectedRecord(P2), ExpectedRecord(P1)>>

C10_WitnessCollision ==
  /\ entry = "loadMarkdownCollection"
  /\ pc = "returned"
  /\ Listing = <<Collide, SubDir, P1>>
  /\ Len(items) = 2

\* A Markdown file as the specification words it: a regular file whose
\* name ends in .md or .mdx, in any letter case.
SpecRecognized(name) ==
  /\ Lookup(fsys, Join(Resolve(cwd, cfg.path), name)).kind = "file"
  /\ Len(name) >= 2
  /\ name[Len(name) - 1] = "."
  /\ LowerTok(name[Len(name)]) \in {"md", "mdx"}

MarkdownFiles == SelectSeq(Listing, SpecRecognized)

(* C11: the Markdown directory loader recognizes .md and .mdx alike, in    *)
(* any letter case: a directory whose files are all loadable yields one    *)
(* record for each .md and each .mdx file, also when it holds .mdx files   *)
(* only.                                                                   *)
C11_MdxRecognized ==
  (/\ entry = "loadMarkdownCollection"
   /\ Lookup(fsys, Resolve(cwd, cfg.path)).kind = "dir"
   /\ MarkdownFiles # <<>>
   /\ \A n \in 1..Len(MarkdownFiles) : Loadable(MarkdownFiles[n])) =>
    /\ pc # "failed"
    /\ pc = "returned" =>
         items = [n \in 1..Len(MarkdownFiles) |-> ExpectedRecord(MarkdownFiles[n])]

(* C12: in a Markdown collection defined with a schema, every record that  *)
(* all() returns carries the body the loader parsed from its file,         *)
(* whether or not the schema declares a body field.                        *)
C12_BodyAlwaysIncluded ==
  (/\ entry = "defineCollection"
   /\ pc = "ready"
   /\ fmt = "md"
   /\ cfg.schema # <<>>
   /\ cfg.transform = <<>>) =>
    /\ Len(frozen) = Len(trace[1].out)
    /\ \A n \in 1..Len(frozen) :
         /\ frozen[n].k = "obj"
         /\ frozen[n].f.body.t = "str"
         /\ frozen[n].f.body = trace[1].out[n].f.body

\* The ways the loader words "no qualifying files were found".
NoFilesFramings ==
  {"No .md files found in directory: ", "No .md or .mdx files found in directory: "}

(* C13: loadMarkdownCollection on an existing directory without any        *)
(* recognized content file fails with a ContentError that says no files    *)
(* were found and names the directory in its message and as its filePath;  *)
(* it never returns an empty sequence.                                     *)
C13_EmptyDirectoryFails ==
  entry = "loadMarkdownCollection" =>
    /\ (Lookup(fsys, Resolve(cwd, cfg.path)).kind = "dir" /\ QualifyingFiles = <<>>) =>
         /\ pc \in {"md", "failed"}
         /\ pc = "failed" =>
              /\ err.name = "ContentError"
              /\ err.message[1] \in NoFilesFramings
              /\ Tail(err.message) = Resolve(cwd, cfg.path)
              /\ err.filePath = <<Resolve(cwd, cfg.path)>>
              /\ err.itemIndex = <<>>
    /\ pc = "returned" => items # <<>>

C13_Witness ==
  /\ entry = "loadMarkdownCollection"
  /\ pc = "failed"
  /\ Listing = <<Notes, SubDir, Ghost>>
  /\ err.message = <<NoFilesMessage(mdxBuild)>> \o <<"/", "w", "/", "posts">>

\* The linked elements the loop has taken up so far.
LinkedSoFar == SelectSeq(SubSeq(data, 1, Processed), SpecLinked)

\* The file a cross-link of a JSON file at an absolute path names; the
\* working directory has no part in it.
AbsTarget(e) == Resolve(Dirname(NormalizePath(cfg.path)), e.f.contentPath.v)

(* C14: when the JSON file is given by an absolute path, the Markdown      *)
(* files read, and the bodies merged, are those named by contentPath       *)
(* against the JSON file's directory; the working directory does not       *)
(* enter, so runs from different working directories read the same files.  *)
C14_LinksResolveFromJsonDir ==
  (entry = "loadJsonCollection" /\ IsAbsolute(cfg.path) /\ pc # "json") =>
    /\ Tail(reads) = [n \in 1..Len(LinkedSoFar) |-> AbsTarget(LinkedSoFar[n])]
    /\ \A n \in 1..Len(loaderItems) :
         SpecLinked(data[n]) =>
           loaderItems[n].f.body = Str(Lookup(fsys, AbsTarget(data[n])).text)

C14_Witness ==
  /\ entry = "loadJsonCollection"
  /\ cwd = Cwd1
  /\ cfg.path = AbsJsonPath
  /\ pc = "returned"
  /\ data = <<RecLinkA, RecA>>
  /\ reads = <<AbsJsonPath, <<"/", "data", "/", "a", ".", "md">> >>
  /\ items = <<WithBody(RecLinkA, TextA), RecA>>

\* The first words of the error loadJson raises when the file exists but
\* may not be read.
DeniedFraming ==
  LoadJson(FsAt(cwd, cfg.path, DeniedFile, MissingNode, MissingNode),
           cwd, cfg.path).err.message[1]

(* C15: when the JSON source file does not exist, loadJsonCollection       *)
(* fails with a ContentError whose framing is a not-found one, different   *)
(* from the framing of the other read failures.                            *)
C15_NotFoundDistinguished ==
  (/\ entry = "loadJsonCollection"
   /\ pc = "failed"
   /\ Lookup(fsys, Resolve(cwd, cfg.path)).kind = "missing") =>
    /\ err.name = "ContentError"
    /\ err.message[1] # DeniedFraming

\* What sits at the path loadMarkdownFile was given.
FileGiven == Lookup(fsys, Resolve(cwd, cfg.path))

(* C16: loadMarkdownFile returns the file's whole raw text, frontmatter    *)
(* included; a missing file fails with a ContentError saying "Markdown     *)
(* file not found", any other I/O error with a ContentError of the         *)
(* generic "Failed to read markdown file" framing followed by the          *)
(* underlying error's description; filePath is the resolved path in both.  *)
C16_LoadMarkdownFile ==
  (entry = "loadMarkdownFile" /\ pc # "mdread") =>
    /\ (FileGiven.kind = "file" /\ FileGiven.perm = "ok") =>
         /\ pc = "returned"
         /\ ~ret.threw
         /\ ret.val = FileGiven.text
    /\ FileGiven.kind = "missing" =>
         /\ pc = "failed"
         /\ err = ContentError(<<"Markdown file not found: ">> \o cfg.path,
                               <<Resolve(cwd, cfg.path)>>, <<>>)
    /\ (FileGiven.kind = "dir" \/ (FileGiven.kind = "file" /\ FileGiven.perm = "denied")) =>
         /\ pc = "failed"
         /\ err.name = "ContentError"
         /\ err.message[1] = "Failed to read markdown file: "
         /\ err.message[2] = (IF FileGiven.kind = "dir" THEN "EISDIR" ELSE "EACCES")
         /\ Tail(err.message) = ReadFileSync(fsys, Resolve(cwd, cfg.path)).msg
         /\ err.filePath = <<Resolve(cwd, cfg.path)>>
         /\ err.itemIndex = <<>>

C16_Witness ==
  /\ entry = "loadMarkdownFile"
  /\ pc = "returned"
  /\ cfg.path = <<"docs", "/", "/", "a", ".", "md">>
  /\ ret.val = <<"---", "id", "x", "---", "Body B">>
  /\ reads = << <<"/", "v", "/", "docs", "/", "a", ".", "md">> >>

C16_WitnessMissing ==
  /\ entry = "loadMarkdownFile"
  /\ pc = "failed"
  /\ cfg.path = AMd
  /\ err.message = <<"Markdown file not found: ", "a", ".", "md">>
  /\ err.filePath = << <<"/", "w", "/", "a", ".", "md">> >>

C16_WitnessDirectory ==
  /\ entry = "loadMarkdownFile"
  /\ pc = "failed"
  /\ FileGiven.kind = "dir"
  /\ err.message[1] = "Failed to read markdown file: "

(* C17: ContentError.toString() is the message, then "\n  File: " and the  *)
(* filePath whenever a filePath is present, then "\n  Item index: " and    *)
(* the itemIndex whenever an itemIndex is present; an empty-string         *)
(* filePath and an itemIndex of 0 are present values.                      *)
C17_ToStringAppendsPresent ==
  (entry = "ContentError" /\ pc = "rendered") =>
    ret.val = err.message
                \o (IF err.filePath # <<>>
                      THEN <<"\n  File: ">> \o err.filePath[1] ELSE <<>>)
                \o (IF err.itemIndex # <<>>
                      THEN <<"\n  Item index: ", IndexStr(err.itemIndex[1])>> ELSE <<>>)

Reversed(seq) == [n \in 1..Len(seq) |-> seq[Len(seq) + 1 - n]]

\* The records the source at the configured path stands for right now.
SourceRecords ==
  IF fmt = "json"
    THEN [n \in 1..Len(SourceArray) |-> Derived(SourceArray[n])]
    ELSE [n \in 1..Len(QualifyingFiles) |-> ExpectedRecord(QualifyingFiles[n])]

\* The call made before the current one.
Before == prior[Len(prior)]

C18_WitnessRewritten ==
  /\ prior # <<>>
  /\ pc = "ready"
  /\ cfg.schema = <<>>
  /\ Before.pc = "ready"
  /\ Before.fsys # fsys
  /\ Before.frozen = <<RecA>>
  /\ frozen = <<WithBody(RecLinkA, TextC), RecA>>

(* C19: getById completes, with a record or undefined, on every collection *)
(* defineCollection returns, also one loaded without schema from an array  *)
(* holding null, numbers or strings; it never raises.                      *)
C19_GetByIdNeverRaises ==
  (entry = "defineCollection" /\ ret.op = "getById" /\ nmut = 0) => ~ret.threw

\* The sequence validateItems was called with.
ValidateInput == IF trace # <<>> THEN trace[1].in ELSE items

(* C20: when every item passes the schema, validateItems returns a         *)
(* sequence as long as its input whose i-th element is the schema's        *)
(* output for the i-th item, not the raw item; an empty input gives an     *)
(* empty output and the schema is never applied.                           *)
C20_ValidateNormalizes ==
  (entry = "validateItems" /\ Rejected(cfg.schema[1], ValidateInput) = {}) =>
    /\ pc # "failed"
    /\ \A n \in 1..Len(validated) :
         validated[n] = SafeParse(cfg.schema[1], ValidateInput[n]).data
    /\ pc = "returned" =>
         /\ Len(items) = Len(ValidateInput)
         /\ items = validated
         /\ parsed = Upto(Len(ValidateInput))
    /\ ValidateInput = <<>> => (parsed = <<>> /\ validated = <<>>)

C20_Witness ==
  /\ entry = "validateItems"
  /\ pc = "returned"
  /\ cfg.schema = <<SchemaStrict>>
  /\ trace[1].in = <<RecLinkB, RecA, WithBody(RecA, TextA)>>
  /\ items = <<Rec(Str(<<"b">>), Str(<<"T">>), Absent, Absent), RecA, RecA>>

C20_WitnessEmpty ==
  /\ entry = "validateItems"
  /\ pc = "returned"
  /\ trace[1].in = <<>>
  /\ items = <<>>
  /\ parsed = <<>>

\* 1-based positions, among the qualifying files, of those that cannot be
\* read or whose frontmatter cannot be parsed.
BadFiles == {n \in 1..Len(QualifyingFiles) : ~Loadable(QualifyingFiles[n])}

\* The path of a directory entry.
EntryPath(name) == Join(Resolve(cwd, cfg.path), name)

(* C21: loadMarkdownCollection reads the qualifying files in listing       *)
(* order and stops at the first whose read or frontmatter parse fails:     *)
(* the ContentError carries that file's path and the underlying error's    *)
(* message, nothing is returned and no later file is read.                 *)
C21_MarkdownFailFast ==
  (entry = "loadMarkdownCollection"
     /\ Lookup(fsys, Resolve(cwd, cfg.path)).kind = "dir") =>
    /\ Len(reads) <= Len(QualifyingFiles)
    /\ reads = [n \in 1..Len(reads) |-> EntryPath(QualifyingFiles[n])]
    /\ BadFiles # {} =>
         /\ pc # "returned"
         /\ items = <<>>
         /\ Len(reads) <= Min(BadFiles)
         /\ pc = "failed" =>
              LET bad == QualifyingFiles[Min(BadFiles)]
              IN /\ Len(reads) = Min(BadFiles)
                 /\ err.name = "ContentError"
                 /\ err.filePath = <<EntryPath(bad)>>
                 /\ err.message =
                      (IF bad = Locked
                         THEN <<"Failed to read file: ", "EACCES", ": ">> \o EntryPath(bad)
                         ELSE <<"Failed to parse frontmatter: ",
                                "bad indentation of a mapping entry">>)

C21_Witness ==
  /\ entry = "loadMarkdownCollection"
  /\ pc = "failed"
  /\ Listing = <<P1, BadFm, Locked>>
  /\ reads = <<EntryPath(P1), EntryPath(BadFm)>>
  /\ err.filePath = <<EntryPath(BadFm)>>

C21_WitnessUnreadable ==
  /\ entry = "loadMarkdownCollection"
  /\ pc = "failed"
  /\ Listing = <<Locked, P1>>
  /\ reads = <<EntryPath(Locked)>>
  /\ err.message[1] = "Failed to read file: "

\* What gray-matter makes of a directory entry's text.
Frontmatter(name) == Matter(EntryNode(name).text)

(* C22: when a file's frontmatter has a key named body, the record's body  *)
(* is the text after the frontmatter block, never the frontmatter value;   *)
(* the other frontmatter fields are kept.                                  *)
C22_ParsedBodyWins ==
  entry = "loadMarkdownCollection" =>
    /\ \A n \in 1..Len(loaderItems) :
         LET fm == Frontmatter(mdFiles[n])
         IN fm.val[1].body.t # "absent" =>
              /\ loaderItems[n].f.body = Str(fm.val[2])
              /\ loaderItems[n].f.body # fm.val[1].body
              /\ \A k \in Fields \ {"body"} : loaderItems[n].f[k] = fm.val[1][k]
    /\ pc = "returned" => items = loaderItems

C22_Witness ==
  /\ entry = "loadMarkdownCollection"
  /\ pc = "returned"
  /\ mdFiles = <<P1, Collide>>
  /\ items[2].f.body = Str(<<"Real">>)
  /\ Frontmatter(Collide).val[1].body = Str(<<"fm">>)

\* What JSON.parse made of the source file.
SourceJson == Lookup(fsys, Resolve(cwd, cfg.path)).json

(* C23: when the JSON source parses to a top-level value that is not an    *)
(* array (object, string, number, boolean or null), loadJsonCollection     *)
(* fails with a ContentError whose message names the actual top-level      *)
(* type, and no element is processed and no Markdown file is read.         *)
C23_NotAnArrayNamesType ==
  (/\ entry = "loadJsonCollection"
   /\ Lookup(fsys, Resolve(cwd, cfg.path)).kind = "file"
   /\ Lookup(fsys, Resolve(cwd, cfg.path)).perm = "ok"
   /\ SourceJson.valid
   /\ SourceJson.top # "array") =>
    /\ pc # "returned"
    /\ pc # "link"
    /\ loaderItems = <<>>
    /\ \A n \in 1..Len(reads) : reads[n] = Resolve(cwd, cfg.path)
    /\ pc = "failed" =>
         /\ err.name = "ContentError"
         /\ err.message = <<"Expected JSON file to contain an array, got ",
                            SourceJson.top>>

\* The entries of the listing that cannot be stat-ed.
Unstatable == {n \in 1..Len(Listing) : Lookup(fsys, EntryPath(Listing[n])).kind = "missing"}

\* The stat calls a complete scan of the listing makes.
EntryStats == [n \in 1..Len(Listing) |-> [call |-> "statSync", path |-> EntryPath(Listing[n])]]

(* C24: a directory entry that cannot be stat-ed is skipped silently and   *)
(* never stops the scan: every entry after it is still stat-ed, the        *)
(* qualifying files are loaded as if it were not listed, it is never read  *)
(* and no error names it; the one failure it can lead to is the            *)
(* empty-directory error, when nothing else qualifies.                     *)
C24_UnstatableSkipped ==
  (/\ entry = "loadMarkdownCollection"
   /\ Lookup(fsys, Resolve(cwd, cfg.path)).kind = "dir"
   /\ Unstatable # {}
   /\ pc # "md") =>
    /\ SubSeq(sys, 3, Len(sys)) = EntryStats
    /\ \A n \in Unstatable :
         /\ \A m \in 1..Len(reads) : reads[m] # EntryPath(Listing[n])
         /\ err.filePath # <<EntryPath(Listing[n])>>
    /\ QualifyingFiles # <<>> => mdFiles = QualifyingFiles
    /\ (QualifyingFiles # <<>> /\ BadFiles = {} /\ pc = "returned") =>
         items = [n \in 1..Len(QualifyingFiles) |-> ExpectedRecord(QualifyingFiles[n])]
    /\ pc = "failed" =>
         IF QualifyingFiles = <<>>
           THEN /\ err.message = <<NoFilesMessage(mdxBuild)>> \o Resolve(cwd, cfg.path)
                /\ err.filePath = <<Resolve(cwd, cfg.path)>>
           ELSE /\ BadFiles # {}
                /\ err.filePath = <<EntryPath(QualifyingFiles[Min(BadFiles)])>>

C24_Witness ==
  /\ entry = "loadMarkdownCollection"
  /\ pc = "returned"
  /\ Listing = <<P1, Ghost, P2>>
  /\ Len(sys) = 5
  /\ items = <<ExpectedRecord(P1), ExpectedRecord(P2)>>

C24_WitnessOnlyGhost ==
  /\ entry = "loadMarkdownCollection"
  /\ pc = "failed"
  /\ Listing = <<Ghost>>
  /\ err.message[1] = NoFilesMessage(mdxBuild)

\* A name that ends in an extension this build recognizes, in any letter case.
HasRecognizedExt(name) ==
  /\ Len(name) >= 2
  /\ name[Len(name) - 1] = "."
  /\ LowerTok(name[Len(name)]) \in (IF mdxBuild THEN {"md", "mdx"} ELSE {"md"})

\* The entries of the listing with a recognized extension that are not
\* regular files.
NonFiles ==
  {n \in 1..Len(Listing) :
     /\ HasRecognizedExt(Listing[n])
     /\ Lookup(fsys, EntryPath(Listing[n])).kind = "dir"}

(* C30: a directory entry with a recognized extension that is not a        *)
(* regular file (a subdirectory named sub.md) is left out: it is never     *)
(* read, it gives no record and no error; a directory whose only entries   *)
(* with a recognized extension are such non-files fails with the           *)
(* empty-directory error.                                                  *)
C30_NonFilesExcluded ==
  (/\ entry = "loadMarkdownCollection"
   /\ Lookup(fsys, Resolve(cwd, cfg.path)).kind = "dir"
   /\ NonFiles # {}
   /\ pc # "md") =>
    /\ \A n \in NonFiles :
         /\ \A m \in 1..Len(mdFiles) : mdFiles[m] # Listing[n]
         /\ \A m \in 1..Len(reads) : reads[m] # EntryPath(Listing[n])
         /\ err.filePath # <<EntryPath(Listing[n])>>
    /\ Len(loaderItems) <= Len(Listing) - Cardinality(NonFiles)
    /\ (BadFiles = {} /\ pc = "returned") =>
         items = [n \in 1..Len(QualifyingFiles) |-> ExpectedRecord(QualifyingFiles[n])]
    /\ (\A n \in 1..Len(Listing) : HasRecognizedExt(Listing[n]) => n \in NonFiles) =>
         /\ pc = "failed"
         /\ err.name = "ContentError"
         /\ err.message = <<NoFilesMessage(mdxBuild)>> \o Resolve(cwd, cfg.path)

C30_Witness ==
  /\ entry = "loadMarkdownCollection"
  /\ pc = "returned"
  /\ Listing = <<SubDir, P1>>
  /\ items = <<ExpectedRecord(P1)>>

C30_WitnessOnlyNonFiles ==
  /\ entry = "loadMarkdownCollection"
  /\ pc = "failed"
  /\ Listing = <<Notes, SubDir>>
  /\ err.message[1] = NoFilesMessage(mdxBuild)

(* C25: a ContentError raised for a failing item carries an item-position  *)
(* marker: the numeric index of the JSON array item whose link cannot be   *)
(* loaded or of the item the schema rejects, and a file-derived identity   *)
(* for the Markdown file whose read or frontmatter parse fails.            *)
C25_ItemMarker ==
  (entry = "defineCollection" /\ pc = "failed") =>
    /\ (fmt = "json" /\ trace = <<>> /\ data # <<>>) =>
         err.itemIndex = <<idx>>
    /\ (Len(trace) = 1 /\ cfg.schema # <<>>) =>
         err.itemIndex = <<Min(Rejected(cfg.schema[1], trace[1].out))>>
    /\ (fmt = "md" /\ trace = <<>> /\ mdFiles # <<>>) =>
         err.itemIndex # <<>>

\* What is at the path the loader was given.
Target == Lookup(fsys, Resolve(cwd, cfg.path))

(* C26: loadMarkdownCollection examines its target before listing it: a    *)
(* path that cannot be stat-ed fails with the access-failure ContentError, *)
(* an existing path that is not a directory with the not-a-directory       *)
(* ContentError; in both cases the only system call is the stat of the     *)
(* resolved path, no file is read, and the error's filePath is the         *)
(* resolved path.                                                          *)
C26_TargetCheckedFirst ==
  (/\ entry = "loadMarkdownCollection"
   /\ Target.kind # "dir"
   /\ pc # "md") =>
    /\ pc = "failed"
    /\ err.name = "ContentError"
    /\ err.filePath = <<Resolve(cwd, cfg.path)>>
    /\ err.itemIndex = <<>>
    /\ err.message =
         (IF Target.kind = "missing"
            THEN <<"Failed to access directory: ", "ENOENT", ": ">> \o Resolve(cwd, cfg.path)
            ELSE <<"Path is not a directory: ">> \o Resolve(cwd, cfg.path))
    /\ sys = <<[call |-> "statSync", path |-> Resolve(cwd, cfg.path)]>>
    /\ reads = <<>>
    /\ mdFiles = <<>>
    /\ loaderItems = <<>>

C26_Witness ==
  /\ entry = "loadMarkdownCollection"
  /\ pc = "failed"
  /\ Target.kind = "file"
  /\ err.message[1] = "Path is not a directory: "
  /\ Len(sys) = 1

C26_WitnessMissing ==
  /\ entry = "loadMarkdownCollection"
  /\ pc = "failed"
  /\ Target.kind = "missing"
  /\ err.message[1] = "Failed to access directory: "
  /\ Len(sys) = 1

(* C27: load errors come before validation errors: when a JSON source has  *)
(* a record whose link cannot be loaded and an item the schema would       *)
(* reject, at any index, defineCollection fails with the link-load error   *)
(* of the first bad link and the schema is never applied.                  *)
C27_LoadErrorsFirst ==
  (/\ entry = "defineCollection"
   /\ InferFormat(cfg) = "json"
   /\ cfg.schema # <<>>
   /\ Target.kind = "file"
   /\ SourceJson.valid
   /\ SourceJson.top = "array"
   /\ BadLinks # {}) =>
    /\ pc \in {"infer", "json", "link", "failed"}
    /\ parsed = <<>>
    /\ validated = <<>>
    /\ trace = <<>>
    /\ pc = "failed" =>
         /\ err.name = "ContentError"
         /\ err.itemIndex = <<Min(BadLinks)>>
         /\ err.message[1] = "Failed to load markdown content for item at index "
         /\ err.message[2] = IndexStr(Min(BadLinks))

C27_Witness ==
  /\ entry = "defineCollection"
  /\ pc = "failed"
  /\ cfg.schema = <<SchemaLoose>>
  /\ SourceArray = <<Null, RecLinkA>>
  /\ Rejected(SchemaLoose, SourceArray) = {0}
  /\ BadLinks = {1}
  /\ err.itemIndex = <<1>>
  /\ parsed = <<>>

C27_WitnessLinkFirst ==
  /\ entry = "defineCollection"
  /\ pc = "failed"
  /\ cfg.schema = <<SchemaStrict>>
  /\ SourceArray = <<RecLinkA, RecB>>
  /\ Rejected(SchemaStrict, SourceArray) = {0, 1}
  /\ BadLinks = {0}
  /\ err.itemIndex = <<0>>
  /\ parsed = <<>>

(* C28: what the transform returns is never validated again: with a        *)
(* schema and a transform all() returns exactly the transform's output,    *)
(* also when that output holds records the schema would reject, and the    *)
(* schema has been applied to the loaded items only; with a schema and no  *)
(* transform every record is the schema's normalized output of the loaded  *)
(* item at the same position (for a caller that has not written through    *)
(* an earlier result).                                                     *)
C28_TransformNotRevalidated ==
  (entry = "defineCollection" /\ pc = "ready" /\ cfg.schema # <<>>) =>
    /\ parsed = [n \in 1..Len(trace[1].out) |-> n - 1]
    /\ trace[2].out = [n \in 1..Len(trace[1].out) |->
                         SafeParse(cfg.schema[1], trace[1].out[n]).data]
    /\ cfg.transform # <<>> =>
         /\ trace[3].stage = "transform"
         /\ trace[3].in = trace[2].out
         /\ frozen = trace[3].out
    /\ cfg.transform = <<>> => frozen = trace[2].out
    /\ (ret.op = "all" /\ nmut = 0) => ret.val = frozen

C28_Witness ==
  /\ entry = "defineCollection"
  /\ pc = "ready"
  /\ cfg.schema = <<SchemaStrict>>
  /\ cfg.transform = <<"replace">>
  /\ ret.op = "all"
  /\ nmut = 0
  /\ ret.val = <<RecZ, RecNumId>>
  /\ Rejected(SchemaStrict, ret.val) = {0, 1}
  /\ Len(parsed) = 2

C28_WitnessNoTransform ==
  /\ entry = "defineCollection"
  /\ pc = "ready"
  /\ cfg.schema = <<SchemaStrict>>
  /\ cfg.transform = <<>>
  /\ ret.op = "all"
  /\ nmut = 0
  /\ trace[1].out = <<ExpectedRecord(P1)>>
  /\ ret.val = <<RecA>>

(* C29: a linked record that has a body of its own in the JSON source      *)
(* comes out with body = the raw text of the linked file, the JSON value   *)
(* overwritten, and its other fields as they were.                         *)
C29_LinkedBodyOverwrites ==
  entry = "loadJsonCollection" =>
    /\ \A n \in 1..Len(loaderItems) :
         (SpecLinked(SourceArray[n]) /\ SourceArray[n].f.body.t # "absent") =>
           /\ loaderItems[n].k = "obj"
           /\ loaderItems[n].f.body = Str(SpecTarget(SourceArray[n]).text)
           /\ loaderItems[n].f.body # SourceArray[n].f.body
           /\ \A k \in Fields \ {"body"} : loaderItems[n].f[k] = SourceArray[n].f[k]
    /\ pc = "returned" => items = loaderItems

C29_Witness ==
  /\ entry = "loadJsonCollection"
  /\ pc = "returned"
  /\ SourceArray = <<RecA, RecLinkB>>
  /\ RecLinkB.f.body = Str(<<"own">>)
  /\ items[2] = Rec(Str(<<"b">>), Str(<<"T">>), Str(BMd), Str(TextB))

====
